---- MODULE Spec2Model ----
(***************************************************************************)
(* A model of the peer-lifecycle and overlay-routing engine of ataraxia:   *)
(*   - RequestReplyHelper (packages/core/src/RequestReplyHelper.ts)        *)
(*   - AbstractPeer, the negotiation state machine                         *)
(*   - Topology, the gossip orchestrator                                   *)
(* Every object is a record; every method is an operator from the record   *)
(* (and the call's arguments) to the record after the call.                *)
(***************************************************************************)
EXTENDS Integers, Sequences, FiniteSets, TLC

VARIABLES
    rrh,        \* the RequestReplyHelper instance and what its promises saw
    peer,       \* the AbstractPeer at each end of a link
    link,       \* link[p]: the frames p handed to its transport, in order
    transport,  \* transport[p]: the role of p's transport, whether it is open, the connections left to it
    topology,   \* topology[n]: the Topology of node n
    net,        \* net[<<n, m>>]: the gossip frames n sent to m that m has still to handle
    conns       \* the peers that are Active, or the links that are up

peerVars == << peer, link, transport >>

topoVars == << topology, net, conns >>

vars == << rrh, peer, link, transport, topology, net, conns >>

(***************************************************************************)
(* RequestReplyHelper                                                      *)
(***************************************************************************)

\* How many requests a run prepares.
MaxRequests == 4

ReqIds == 0 .. (MaxRequests - 1)

\* The values a reply may carry.
Results == { "r1", "r2" }

\* constructor: no pending message, idCounter 0. `timers` are the armed
\* setTimeout handles (by request id); `promise`, `calls` and `first` are what
\* the caller of prepareRequest observes: the promise's settlement, the number
\* of resolve/reject calls made on it, and the first event registered for it.
RequestReplyHelper ==
    [ idCounter |-> 0,
      pending   |-> {},
      timers    |-> {},
      promise   |-> [ i \in ReqIds |-> << "none" >> ],
      calls     |-> [ i \in ReqIds |-> 0 ],
      first     |-> [ i \in ReqIds |-> "none" ] ]

\* releaseId: clearTimeout(pending.timeout); pending.delete(id).
releaseId(h, id) ==
    IF id \notin h.pending
    THEN h
    ELSE [ h EXCEPT !.timers = @ \ { id }, !.pending = @ \ { id } ]

\* prepareRequest: messageId = idCounter++, the record is stored under it with
\* a timeout armed; the promise is returned unsettled.
prepareRequest(h) ==
    [ h EXCEPT !.idCounter = @ + 1,
               !.pending   = @ \cup { h.idCounter },
               !.timers    = @ \cup { h.idCounter },
               !.promise[h.idCounter] = << "pending" >> ]

\* message.resolve(result) / message.reject(error): a promise keeps its first
\* settlement; every call is counted.
settle(h, id, outcome) ==
    [ h EXCEPT !.calls[id]   = @ + 1,
               !.promise[id] = IF @ = << "pending" >> THEN outcome ELSE @ ]

registerReply_NoPendingCheck(h, id, result) ==
    settle(releaseId(h, id), id, << "resolved", result >>)

\* registerReply
registerReply(h, id, result) ==
    IF id \notin h.pending
    THEN h
    ELSE settle(releaseId(h, id), id, << "resolved", result >>)

\* registerError
registerError(h, id, error) ==
    IF id \notin h.pending
    THEN h
    ELSE settle(releaseId(h, id), id, << "rejected", error >>)

\* The first event registered for a prepared id (an observation, not code).
noteFirst(h, id, what) ==
    IF id < h.idCounter /\ h.first[id] = "none"
    THEN [ h EXCEPT !.first[id] = what ]
    ELSE h

PrepareRequest ==
    /\ rrh.idCounter < MaxRequests
    /\ rrh' = prepareRequest(rrh)
    /\ UNCHANGED << peerVars, topoVars >>

RegisterReply(id, result) ==
    /\ rrh' = noteFirst(registerReply(rrh, id, result), id, result)
    /\ UNCHANGED << peerVars, topoVars >>

RegisterError(id) ==
    /\ rrh' = noteFirst(registerError(rrh, id, "Err"), id, "Err")
    /\ UNCHANGED << peerVars, topoVars >>

\* The setTimeout callback of prepareRequest: the handle is spent, and
\* registerError(messageId, new Error('Timed out')) runs.
RequestTimeout(id) ==
    /\ id \in rrh.timers
    /\ rrh' = noteFirst(
                registerError([ rrh EXCEPT !.timers = @ \ { id } ], id, "Timed out"),
                id, "Timed out")
    /\ UNCHANGED << peerVars, topoVars >>

(***************************************************************************)
(* AbstractPeer: the negotiation state machine                             *)
(***************************************************************************)

\* The two ends of one link.
PeerIds == { 1, 2 }

other(p) == 3 - p

\* noId(): the id of a peer whose remote is not known yet.
NoId == 0

\* The network ids nodes carry.
NetworkIds == { 1, 2 }

\* How many asynchronous continuations of one peer are pending at once.
MaxTasks == 2

\* How many intervals of one kind, and un-destroyed flows of one kind, a peer
\* is followed up to.
MaxLeaked == 2

\* enum State
States ==
    { "Initial", "WaitingForHello", "WaitingForSelectAck", "WaitingForAuth",
      "WaitingForAuthData", "WaitingForBegin", "WaitingForSelect",
      "WaitingForAuthAck", "Active" }

Negotiating == States \ { "Initial", "Active" }

\* An AuthProvider: its id and whether it has createClientFlow and
\* createServerFlow. `accepts` and `rounds` describe its flows when they are
\* well behaved: the server flow replies Ok (or Reject), after `rounds`
\* AuthData exchanges.
Provider(id, client, server, accepts, rounds) ==
    [ id |-> id, createClientFlow |-> client, createServerFlow |-> server,
      accepts |-> accepts, rounds |-> rounds ]

\* parent.authentication.getProvider(method): the provider of that id, if any.
getProvider(parent, method) ==
    { parent.providers[i] : i \in { j \in DOMAIN parent.providers :
                                        parent.providers[j].id = method } }

\* A frame: its PeerMessageType, and the payload fields the peer reads (the id
\* of Hello and Select, the method of Auth).
Frame(type, id, method) == [ type |-> type, id |-> id, method |-> method ]

Plain(type) == Frame(type, NoId, "none")

\* An auth flow slot (authClientFlow, authServerFlow): undefined, or the flow
\* of a provider, which destroy() marks.
NoFlow == [ provider |-> "none", st |-> "undefined" ]

\* An interval handle slot (pingSender, pingChecker): `cur` says that the
\* handle held is a running interval, `running` counts the running intervals
\* this peer created.
NoInterval == [ cur |-> FALSE, running |-> 0 ]

setInterval(iv) == [ cur |-> TRUE, running |-> iv.running + 1 ]

clearInterval(iv) ==
    IF iv.cur THEN [ cur |-> FALSE, running |-> iv.running - 1 ] ELSE iv

\* A pending continuation: what it awaits and what it needs to go on.
Task(k, method) == [ k |-> k, method |-> method ]

\* constructor. `clientFlows` and `serverFlows` count the flows created and not
\* destroyed, `requested` holds the reasons given to requestDisconnect since
\* the last handleDisconnect, `out` the frames handed to send() during the
\* current call, `tasks` the suspended async functions; `picked` and
\* `sentAuth` are the providers picked, and those whose Auth frame went out,
\* since the negotiation began. `elapsed` is Date.now() - lastLatencyTime,
\* `recorded` the latest samples pushed to latencyValues, oldest first, and
\* `emitted` the types the data event was emitted with during the current call.
AbstractPeer(parent) ==
    [ parent         |-> parent,
      state          |-> "Initial",
      id             |-> NoId,
      helloTimeout   |-> FALSE,
      pingSender     |-> NoInterval,
      pingChecker    |-> NoInterval,
      latencyValues  |-> << >>,
      elapsed        |-> 0,
      recorded       |-> << >>,
      emitted        |-> << >>,
      authProviders  |-> << >>,
      authClientFlow |-> NoFlow,
      authServerFlow |-> NoFlow,
      clientFlows    |-> 0,
      serverFlows    |-> 0,
      tasks          |-> << >>,
      requested      |-> { },
      picked         |-> << >>,
      sentAuth       |-> << >>,
      out            |-> << >> ]

\* requestDisconnect (abstract): the transport is asked to close; it answers
\* with handleDisconnect.
requestDisconnect(pr, reason) ==
    [ pr EXCEPT !.requested = @ \cup { reason } ]

\* The suspended functions resume in any order: they are kept as a multiset,
\* written as a sequence in a fixed order.
TaskKinds ==
    << "initialMessage", "clientReceiveData", "authDestroy", "receiveInitial",
       "serverReceiveData", "sendFailed" >>

TaskMethods == << "none", "p1", "p2", "p3", "p4" >>

IndexOf(seq, x) == CHOOSE i \in DOMAIN seq : seq[i] = x

Rank(task) == 10 * IndexOf(TaskKinds, task.k) + IndexOf(TaskMethods, task.method)

spawn(pr, task) ==
    LET before == { i \in DOMAIN pr.tasks : Rank(pr.tasks[i]) <= Rank(task) }
        n      == Cardinality(before)
    IN  [ pr EXCEPT !.tasks = SubSeq(@, 1, n) \o << task >> \o SubSeq(@, n + 1, Len(@)) ]

\* send (abstract): the frame goes out, or the promise rejects later and its
\* catch handler runs (`onFail`: "abort" or "debug").
send(pr, frame, sendOk, onFail) ==
    IF sendOk
    THEN [ pr EXCEPT !.out = Append(@, frame),
                     !.sentAuth = IF frame.type = "Auth" THEN Append(@, frame.method) ELSE @ ]
    ELSE IF onFail = "abort"
         THEN spawn(pr, Task("sendFailed", "none"))
         ELSE pr

\* A flow's destroy().
destroyFlow(flow) ==
    IF flow.st = "live" THEN [ flow EXCEPT !.st = "destroyed" ] ELSE flow

destroyClientFlow(pr) ==
    [ pr EXCEPT !.authClientFlow = destroyFlow(@),
                !.clientFlows = IF pr.authClientFlow.st = "live" THEN @ - 1 ELSE @ ]

destroyServerFlow(pr) ==
    [ pr EXCEPT !.authServerFlow = destroyFlow(@),
                !.serverFlows = IF pr.authServerFlow.st = "live" THEN @ - 1 ELSE @ ]

\* handleDisconnect
handleDisconnect(pr) ==
    [ pr EXCEPT !.helloTimeout = FALSE,
                !.pingSender   = clearInterval(@),
                !.pingChecker  = clearInterval(@),
                !.state        = "Initial",
                !.requested    = { } ]

\* queueNegotiationTimeout: the previous timeout is cleared, a new one armed.
queueNegotiationTimeout(pr) == [ pr EXCEPT !.helloTimeout = TRUE ]

\* abort(message, error, reason): reason ?? NegotiationFailed.
abort(pr, reason) ==
    requestDisconnect(
        [ pr EXCEPT !.helloTimeout = FALSE ],
        IF reason = "undefined" THEN "NegotiationFailed" ELSE reason)

\* How many of the latest samples pushed are remembered in `recorded`.
MaxRecorded == 7

\* The sample is remembered as the latest one pushed.
record(pr, sample) ==
    [ pr EXCEPT !.recorded =
        Append(IF Len(@) >= MaxRecorded THEN Tail(@) ELSE @, sample) ]

\* registerLatencySend
registerLatencySend(pr) == [ pr EXCEPT !.elapsed = 0 ]

\* negotiateAsServer
negotiateAsServer(pr, sendOk) ==
    queueNegotiationTimeout(
        send([ pr EXCEPT !.state = "WaitingForSelect" ],
             Frame("Hello", pr.parent.networkId, "none"), sendOk, "abort"))

\* negotiateAsClient
negotiateAsClient(pr) ==
    queueNegotiationTimeout(
        [ registerLatencySend(pr) EXCEPT
            !.state = "WaitingForHello", !.picked = << >>, !.sentAuth = << >> ])

\* registerLatencyReply: the sample is time - lastLatencyTime.
registerLatencyReply(pr, sample) ==
    record([ pr EXCEPT !.latencyValues =
               Append(IF Len(@) > 5 THEN Tail(@) ELSE @, sample) ],
           sample)

\* switchToActive
switchToActive(pr) ==
    LET a == [ pr EXCEPT !.helloTimeout = FALSE, !.state = "Active" ]
        b == IF a.authClientFlow.st # "undefined" THEN destroyClientFlow(a) ELSE a
        c == IF b.authServerFlow.st # "undefined" THEN destroyServerFlow(b) ELSE b
    IN  [ c EXCEPT !.pingChecker = setInterval(@),
                   !.pingSender  = setInterval(@) ]

\* forceConnect
forceConnect(pr, id) ==
    switchToActive(record([ pr EXCEPT !.id = id, !.latencyValues = Append(@, 0) ], 0))

receiveHello_KeepId(pr, message, sendOk) ==
    queueNegotiationTimeout(
        send([ pr EXCEPT !.state = "WaitingForSelectAck" ],
             Frame("Select", pr.parent.networkId, "none"), sendOk, "abort"))

\* receiveHello
receiveHello(pr, message, sendOk) ==
    queueNegotiationTimeout(
        send([ registerLatencySend(pr) EXCEPT
                 !.id = message.id, !.state = "WaitingForSelectAck" ],
             Frame("Select", pr.parent.networkId, "none"), sendOk, "abort"))

\* receiveSelect
receiveSelect(pr, message, sendOk) ==
    queueNegotiationTimeout(
        send([ pr EXCEPT !.id = message.id, !.state = "WaitingForAuth" ],
             Plain("Ok"), sendOk, "abort"))

\* pickNextAuthProvider: the providers dropped from the head of authProviders,
\* up to and with the first that has createClientFlow.
RECURSIVE skipped(_)
skipped(providers) ==
    IF providers = << >> THEN 0
    ELSE IF Head(providers).createClientFlow THEN 1
    ELSE 1 + skipped(Tail(providers))

\* pickNextAuthProvider that leaves the list as it was.
pickNextAuthProvider_NoSplice(pr) ==
    LET n == skipped(pr.authProviders)
    IN  [ peer     |-> pr,
          provider |-> IF n > 0 /\ pr.authProviders[n].createClientFlow
                       THEN { pr.authProviders[n] } ELSE { } ]

pickNextAuthProvider(pr) ==
    LET n    == skipped(pr.authProviders)
        rest == SubSeq(pr.authProviders, n + 1, Len(pr.authProviders))
    IN  [ peer     |-> [ pr EXCEPT !.authProviders = rest ],
          provider |-> IF n > 0 /\ pr.authProviders[n].createClientFlow
                       THEN { pr.authProviders[n] } ELSE { } ]

\* sendInitialAuth: the flow of the next provider is created and its
\* initialMessage() awaited, or the peer aborts with AuthReject.
sendInitialAuth(pr) ==
    LET pick == pickNextAuthProvider(pr)
    IN  IF pick.provider # { }
        THEN LET provider == CHOOSE x \in pick.provider : TRUE
             IN  queueNegotiationTimeout(
                    spawn([ pick.peer EXCEPT
                              !.authClientFlow = [ provider |-> provider.id, st |-> "live" ],
                              !.clientFlows = @ + 1,
                              !.picked = Append(@, provider.id) ],
                          Task("initialMessage", provider.id)))
        ELSE abort(pick.peer, "AuthReject")

\* receiveSelectOK
receiveSelectOK(pr) ==
    sendInitialAuth(
        [ registerLatencyReply(pr, pr.elapsed) EXCEPT
            !.state = "WaitingForAuthAck",
            !.authProviders = pr.parent.providers ])

\* receiveAuthOk
receiveAuthOk(pr, sendOk) ==
    send(switchToActive(pr), Plain("Begin"), sendOk, "abort")

\* receiveAuthReject
receiveAuthReject(pr) == sendInitialAuth(pr)

\* receiveServerAuthData, up to its first await.
receiveServerAuthData(pr) ==
    queueNegotiationTimeout(
        IF pr.authClientFlow.st = "undefined"
        THEN abort(pr, "undefined")
        ELSE spawn(pr, Task("clientReceiveData", pr.authClientFlow.provider)))

\* receiveAuth, from the provider lookup to the next await.
receiveAuthLookup(pr, method, sendOk) ==
    LET found == { x \in getProvider(pr.parent, method) : x.createServerFlow }
    IN  IF found = { }
        THEN queueNegotiationTimeout(send(pr, Plain("Reject"), sendOk, "abort"))
        ELSE spawn([ pr EXCEPT !.authServerFlow = [ provider |-> method, st |-> "live" ],
                               !.serverFlows = @ + 1 ],
                   Task("receiveInitial", method))

\* receiveAuth, up to its first await: of the old flow's destroy(), or as
\* receiveAuthLookup.
receiveAuth(pr, message, sendOk) ==
    queueNegotiationTimeout(
        IF pr.authServerFlow.st # "undefined"
        THEN spawn(destroyServerFlow(pr), Task("authDestroy", message.method))
        ELSE receiveAuthLookup(pr, message.method, sendOk))

\* enum AuthServerReplyType; "DataEmpty" is a Data reply without data.
ServerReplies == { "Ok", "Reject", "Data", "DataEmpty" }

\* handleSendingAuthReply without the look at reply.data.
handleSendingAuthReply_NoDataCheck(pr, reply, sendOk) ==
    CASE reply = "Ok" ->
            send([ registerLatencySend(pr) EXCEPT !.state = "WaitingForBegin" ],
                 Plain("Ok"), sendOk, "abort")
      [] reply = "Reject" ->
            send([ pr EXCEPT !.state = "WaitingForAuth" ], Plain("Reject"), sendOk, "abort")
      [] reply \in { "Data", "DataEmpty" } ->
            send([ pr EXCEPT !.state = "WaitingForAuthData" ], Plain("AuthData"), sendOk, "abort")

\* handleSendingAuthReply and the await of its promise in the caller.
handleSendingAuthReply(pr, reply, sendOk) ==
    CASE reply = "Ok" ->
            send([ registerLatencySend(pr) EXCEPT !.state = "WaitingForBegin" ],
                 Plain("Ok"), sendOk, "abort")
      [] reply = "Reject" ->
            send([ pr EXCEPT !.state = "WaitingForAuth" ], Plain("Reject"), sendOk, "abort")
      [] reply = "Data" ->
            send([ pr EXCEPT !.state = "WaitingForAuthData" ], Plain("AuthData"), sendOk, "abort")
      [] reply = "DataEmpty" ->
            abort(abort([ pr EXCEPT !.state = "WaitingForAuthData" ], "undefined"), "undefined")

\* receiveClientAuthData, up to its first await.
receiveClientAuthData(pr) ==
    queueNegotiationTimeout(
        IF pr.authServerFlow.st = "undefined"
        THEN abort(pr, "undefined")
        ELSE spawn(pr, Task("serverReceiveData", pr.authServerFlow.provider)))

\* receivePing
receivePing(pr, sendOk) ==
    send(registerLatencyReply(pr, pr.elapsed), Plain("Pong"), sendOk, "debug")

\* sendPing
sendPing(pr, sendOk) == send(registerLatencySend(pr), Plain("Ping"), sendOk, "debug")

\* checkFailure: failureDetector.checkFailure() is `failed`.
checkFailure(pr, failed) ==
    IF failed THEN requestDisconnect(pr, "PingTimeout") ELSE pr

receiveData_NoStateCheck(pr, frame, sendOk) ==
    CASE frame.type = "Bye"      -> requestDisconnect(pr, "Manual")
      [] frame.type = "Ping"     -> receivePing(pr, sendOk)
      [] frame.type = "Hello"    -> receiveHello(pr, frame, sendOk)
      [] frame.type = "Select"   -> receiveSelect(pr, frame, sendOk)
      [] frame.type = "Auth"     -> receiveAuth(pr, frame, sendOk)
      [] frame.type = "AuthData" ->
            IF pr.state = "WaitingForAuthAck"
            THEN receiveServerAuthData(pr)
            ELSE receiveClientAuthData(pr)
      [] frame.type = "Begin"    -> switchToActive(registerLatencyReply(pr, pr.elapsed))
      [] frame.type = "Ok"       ->
            IF pr.state = "WaitingForSelectAck"
            THEN receiveSelectOK(pr)
            ELSE receiveAuthOk(pr, sendOk)
      [] frame.type = "Reject"   ->
            IF pr.state = "WaitingForSelectAck"
            THEN abort(pr, "undefined")
            ELSE receiveAuthReject(pr)
      [] OTHER                   -> [ pr EXCEPT !.emitted = Append(@, frame.type) ]

\* receiveData: the frame is routed by its type and the peer's state; any
\* other type is emitted as the data event.
receiveData(pr, frame, sendOk) ==
    CASE frame.type = "Bye"      -> requestDisconnect(pr, "Manual")
      [] frame.type = "Ping"     -> receivePing(pr, sendOk)
      [] frame.type = "Hello"    ->
            IF pr.state = "WaitingForHello"
            THEN receiveHello(pr, frame, sendOk)
            ELSE abort(pr, "undefined")
      [] frame.type = "Select"   ->
            IF pr.state = "WaitingForSelect"
            THEN receiveSelect(pr, frame, sendOk)
            ELSE abort(pr, "undefined")
      [] frame.type = "Auth"     ->
            IF pr.state = "WaitingForAuth"
            THEN receiveAuth(pr, frame, sendOk)
            ELSE abort(pr, "undefined")
      [] frame.type = "AuthData" ->
            IF pr.state = "WaitingForAuthData"
            THEN receiveClientAuthData(pr)
            ELSE IF pr.state = "WaitingForAuthAck"
            THEN receiveServerAuthData(pr)
            ELSE abort(pr, "undefined")
      [] frame.type = "Begin"    ->
            IF pr.state = "WaitingForBegin"
            THEN switchToActive(registerLatencyReply(pr, pr.elapsed))
            ELSE abort(pr, "undefined")
      [] frame.type = "Ok"       ->
            IF pr.state = "WaitingForSelectAck"
            THEN receiveSelectOK(pr)
            ELSE IF pr.state = "WaitingForAuthAck"
            THEN receiveAuthOk(pr, sendOk)
            ELSE abort(pr, "undefined")
      [] frame.type = "Reject"   ->
            IF pr.state = "WaitingForSelectAck"
            THEN abort(pr, "undefined")
            ELSE IF pr.state = "WaitingForAuthAck"
            THEN receiveAuthReject(pr)
            ELSE abort(pr, "undefined")
      [] OTHER                   -> [ pr EXCEPT !.emitted = Append(@, frame.type) ]

\* The rest of an async function once what it awaited has settled with
\* `outcome` ("throw": the awaited promise rejected).
resume(pr, task, outcome, sendOk) ==
    CASE task.k = "initialMessage" ->
            \* sendInitialAuth, after await authClientFlow.initialMessage()
            IF outcome = "throw"
            THEN abort(pr, "undefined")
            ELSE send(pr, Frame("Auth", NoId, task.method), sendOk, "abort")
      [] task.k = "clientReceiveData" ->
            \* receiveServerAuthData, after await authClientFlow.receiveData()
            IF outcome = "throw" THEN abort(pr, "undefined")
            ELSE IF outcome = "Data" THEN send(pr, Plain("AuthData"), sendOk, "abort")
            ELSE sendInitialAuth(pr)
      [] task.k = "authDestroy" ->
            \* receiveAuth, after await authServerFlow.destroy()
            receiveAuthLookup(pr, task.method, sendOk)
      [] task.k \in { "receiveInitial", "serverReceiveData" } ->
            \* receiveAuth after await authServerFlow.receiveInitial(), and
            \* receiveClientAuthData after await authServerFlow.receiveData()
            IF outcome = "throw"
            THEN abort(pr, "undefined")
            ELSE handleSendingAuthReply(pr, outcome, sendOk)
      [] task.k = "sendFailed" ->
            \* the catch handler of a send() whose promise rejected
            abort(pr, "undefined")

\* What a flow operation may settle with, for any flow.
Outcomes(task) ==
    CASE task.k = "initialMessage"    -> { "ok", "throw" }
      [] task.k = "clientReceiveData" -> { "Data", "Reject", "throw" }
      [] task.k = "authDestroy"       -> { "ok" }
      [] task.k \in { "receiveInitial", "serverReceiveData" } ->
            ServerReplies \cup { "throw" }
      [] task.k = "sendFailed"        -> { "ok" }

\* What the flows of well-behaved providers settle with: the client flow
\* continues the exchange, the server flow asks for `rounds` AuthData and
\* then accepts or rejects.
HonestOutcomes(pr, task) ==
    LET found == getProvider(pr.parent, task.method)
        prov  == CHOOSE x \in found : TRUE
    IN  CASE task.k = "initialMessage"    -> { "ok" }
          [] task.k = "clientReceiveData" -> { "Data" }
          [] task.k = "authDestroy"       -> { "ok" }
          [] task.k = "receiveInitial"    ->
                IF prov.rounds > 0 THEN { "Data" }
                ELSE IF prov.accepts THEN { "Ok" } ELSE { "Reject" }
          [] task.k = "serverReceiveData" ->
                IF prov.accepts THEN { "Ok" } ELSE { "Reject" }
          [] task.k = "sendFailed"        -> { "ok" }

RemoveAt(s, i) == SubSeq(s, 1, i - 1) \o SubSeq(s, i + 1, Len(s))

\* How often the transport of one peer object connects, and how often the
\* transport of a reconnecting client connects again.
MaxConnects == 1

MaxReconnects == 1

\* A peer is the client end or the server end of its transport, for good.
Roles == << "client", "server" >>

\* `left`: the connections the transport has still to make.
Closed(role, n) == [ role |-> role, open |-> FALSE, left |-> n ]

CanConnect(p) == ~ transport[p].open /\ transport[p].left > 0

Opened(t) == [ t EXCEPT !.open = TRUE, !.left = @ - 1 ]

\* The part of the unbounded state that is followed.
Bounded(pr) ==
    /\ Len(pr.tasks) <= MaxTasks
    /\ pr.pingSender.running <= MaxLeaked
    /\ pr.pingChecker.running <= MaxLeaked
    /\ pr.clientFlows <= MaxLeaked
    /\ pr.serverFlows <= MaxLeaked

\* The call into peer p is over: its record is kept and the frames it sent
\* are on the link after those of `base`.
Commit(p, r, base) ==
    /\ Bounded(r)
    /\ peer' = [ peer EXCEPT ![p] = [ r EXCEPT !.out = << >>, !.emitted = << >> ] ]
    /\ link' = [ base EXCEPT ![p] = @ \o r.out ]

\* ---- a client and a server over a reliable in-order link ----------------

\* The transport of the client connected.
StartClient(p) ==
    /\ CanConnect(p) /\ transport[p].role = "client"
    /\ transport' = [ transport EXCEPT ![p] = Opened(@) ]
    /\ Commit(p, negotiateAsClient(peer[p]), link)
    /\ UNCHANGED << rrh, topoVars >>

\* The transport of the server accepted the connection.
StartServer(p) ==
    /\ CanConnect(p) /\ transport[p].role = "server"
    /\ transport' = [ transport EXCEPT ![p] = Opened(@) ]
    /\ Commit(p, negotiateAsServer(peer[p], TRUE), link)
    /\ UNCHANGED << rrh, topoVars >>

\* The transport of p read the next frame of the link.
Deliver(p) ==
    /\ transport[p].open
    /\ link[other(p)] # << >>
    /\ Commit(p, receiveData(peer[p], Head(link[other(p)]), TRUE),
              [ link EXCEPT ![other(p)] = Tail(@) ])
    /\ UNCHANGED << rrh, transport, topoVars >>

\* A flow operation of p settled.
Settle(p) ==
    \E i \in DOMAIN peer[p].tasks :
        \E outcome \in HonestOutcomes(peer[p], peer[p].tasks[i]) :
            /\ Commit(p, resume([ peer[p] EXCEPT !.tasks = RemoveAt(@, i) ],
                                peer[p].tasks[i], outcome, TRUE),
                      link)
            /\ UNCHANGED << rrh, transport, topoVars >>

\* ---- one peer and an arbitrary remote ------------------------------------

\* The peer whose remote is arbitrary.
P == CHOOSE p \in PeerIds : \A q \in PeerIds : p <= q

Methods == { "p1", "p3" }

\* The frames a remote may send.
Frames ==
    { Plain(t) : t \in { "Data", "AuthData", "Begin", "Ok", "Reject" } }
    \cup { Frame(t, i, "none") : t \in { "Hello", "Select" }, i \in NetworkIds }
    \cup { Frame("Auth", NoId, m) : m \in Methods }

\* A send on a closed transport fails; on an open one it may.
SendOks == { transport[P].open }

\* What the remote has read is gone from the link.
Read == [ link EXCEPT ![P] = << >> ]

ConnectAsClient ==
    /\ CanConnect(P) /\ transport[P].role = "client"
    /\ transport' = [ transport EXCEPT ![P] = Opened(@) ]
    /\ Commit(P, negotiateAsClient(peer[P]), Read)
    /\ UNCHANGED << rrh, topoVars >>

ConnectAsServer ==
    /\ CanConnect(P) /\ transport[P].role = "server"
    /\ transport' = [ transport EXCEPT ![P] = Opened(@) ]
    /\ Commit(P, negotiateAsServer(peer[P], TRUE), Read)
    /\ UNCHANGED << rrh, topoVars >>

Receive(frame) ==
    /\ transport[P].open
    /\ Commit(P, receiveData(peer[P], frame, TRUE), Read)
    /\ UNCHANGED << rrh, transport, topoVars >>

Resume ==
    \E i \in DOMAIN peer[P].tasks :
        \E outcome \in Outcomes(peer[P].tasks[i]), sendOk \in SendOks :
            /\ Commit(P, resume([ peer[P] EXCEPT !.tasks = RemoveAt(@, i) ],
                                peer[P].tasks[i], outcome, sendOk),
                      Read)
            /\ UNCHANGED << rrh, transport, topoVars >>

\* The timeout armed by queueNegotiationTimeout expired.
NegotiationTimeout ==
    /\ peer[P].helloTimeout
    /\ Commit(P, abort(peer[P], "undefined"), Read)
    /\ UNCHANGED << rrh, transport, topoVars >>

\* The transport closed, on request or by itself.
TransportDisconnect ==
    /\ transport[P].open
    /\ transport' = [ transport EXCEPT ![P].open = FALSE ]
    /\ Commit(P, handleDisconnect(peer[P]), Read)
    /\ UNCHANGED << rrh, topoVars >>

PingSenderTick ==
    /\ peer[P].pingSender.running > 0
    /\ \E sendOk \in SendOks : Commit(P, sendPing(peer[P], sendOk), Read)
    /\ UNCHANGED << rrh, transport, topoVars >>

PingCheckerTick ==
    /\ peer[P].pingChecker.running > 0
    /\ \E failed \in BOOLEAN : Commit(P, checkFailure(peer[P], failed), Read)
    /\ UNCHANGED << rrh, transport, topoVars >>

\* ---- a transport that connects without negotiation -----------------------

\* The transport connected and calls forceConnect with the id of its remote.
ForceConnect(id) ==
    /\ CanConnect(P) /\ transport[P].role = "forced"
    /\ transport' = [ transport EXCEPT ![P] = Opened(@) ]
    /\ Commit(P, forceConnect(peer[P], id), Read)
    /\ UNCHANGED << rrh, topoVars >>

\* Time passes since the last registerLatencySend.
Elapse ==
    /\ peer[P].elapsed = 0
    /\ peer' = [ peer EXCEPT ![P].elapsed = 1 ]
    /\ UNCHANGED << rrh, link, transport, topoVars >>

\* The remote's ping arrives.
ReceivePing == Receive(Plain("Ping"))

(***************************************************************************)
(* Topology                                                                *)
(***************************************************************************)

\* The ids of the nodes of the network.
NodeIds == { 1, 2, 3, 4 }

\* A Peer object handed to the topology: the id of its remote node, and which
\* of the connections to that node it is.
PeerOf(id, conn) == [ id |-> id, conn |-> conn ]

\* ---- TopologyNode --------------------------------------------------------
\* `reachableVia` holds the peers recorded as route providers of the node,
\* `outgoing` the ids its edges lead to; the weights of the edges are left out.

\* No node is stored under the id.
NoNode ==
    [ known |-> FALSE, version |-> 0, direct |-> FALSE,
      outgoing |-> { }, reachableVia |-> { } ]

\* new TopologyNode(topology, id)
TopologyNode == [ NoNode EXCEPT !.known = TRUE ]

hasPeers(node) == node.reachableVia # { }

toRoutingDetails(id, node) ==
    [ id |-> id, version |-> node.version, neighbors |-> node.outgoing ]

\* updateRouting: the peer becomes a route provider; details of a higher
\* version replace the edges. `changed` is the value returned.
updateRouting(node, p, routing) ==
    LET newer == routing.version > node.version
    IN  [ node    |-> [ node EXCEPT !.reachableVia = @ \cup { p },
                                    !.version = IF newer THEN routing.version ELSE @,
                                    !.outgoing = IF newer THEN routing.neighbors ELSE @ ],
          changed |-> newer ]

\* removeRouting: the peer is no route provider of the node any more.
removeRouting(node, p) ==
    [ node    |-> [ node EXCEPT !.reachableVia = @ \ { p } ],
      changed |-> p \in node.reachableVia ]

\* ---- Topology ------------------------------------------------------------

\* No PeerDetails is stored under the id.
NoPeerInfo == [ tracked |-> FALSE, peer |-> PeerOf(0, 0), nodes |-> { } ]

\* constructor. `subscriptions` holds the peers whose onData and onDisconnect
\* the topology listens to, `dirty` the flag of Routing, `out` the frames
\* handed to peers during the current call, `timers` the callbacks handed to
\* setTimeout that have not run.
Topology(networkId, endpoint) ==
    [ networkId        |-> networkId,
      endpoint         |-> endpoint,
      nodes            |-> [ id \in NodeIds |->
                               IF id = networkId
                               THEN [ TopologyNode EXCEPT !.direct = TRUE ]
                               ELSE NoNode ],
      peers            |-> [ id \in NodeIds |-> NoPeerInfo ],
      subscriptions    |-> { },
      broadcastTimeout |-> FALSE,
      timers           |-> 0,
      dirty            |-> FALSE,
      out              |-> { } ]

self(t) == t.nodes[t.networkId]

\* The ids of this.peers.
TrackedIds(t) == { id \in NodeIds : t.peers[id].tracked }

\* peer.send(type, payload); a failure is only logged.
sendTo(t, p, message) == [ t EXCEPT !.out = @ \cup { [ to |-> p, message |-> message ] } ]

getOrCreate(t, id) ==
    IF t.nodes[id].known THEN t ELSE [ t EXCEPT !.nodes[id] = TopologyNode ]

\* getOrCreate for each id of a message.
getOrCreateAll(t, ids) ==
    [ t EXCEPT !.nodes = [ id \in NodeIds |->
                             IF id \in ids /\ ~ @[id].known THEN TopologyNode ELSE @[id] ] ]

\* TopologyNode.updateSelf of the self node: its edges are rebuilt from the
\* tracked peers, and its version goes up if they differ.
updateSelf(t) ==
    IF TrackedIds(t) = self(t).outgoing
    THEN t
    ELSE [ t EXCEPT !.nodes[t.networkId].outgoing = TrackedIds(t),
                    !.nodes[t.networkId].version = @ + 1 ]

\* queueBroadcast without the endpoint check.
queueBroadcast_NoEndpointCheck(t) ==
    IF t.broadcastTimeout \/ TrackedIds(t) = { }
    THEN [ t EXCEPT !.dirty = TRUE ]
    ELSE [ t EXCEPT !.dirty = TRUE, !.broadcastTimeout = TRUE, !.timers = @ + 1 ]

\* queueBroadcast without the look at this.broadcastTimeout.
queueBroadcast_NoPendingCheck(t) ==
    IF t.endpoint \/ TrackedIds(t) = { }
    THEN [ t EXCEPT !.dirty = TRUE ]
    ELSE [ t EXCEPT !.dirty = TRUE, !.broadcastTimeout = TRUE, !.timers = @ + 1 ]

\* queueBroadcast, up to setTimeout.
queueBroadcast(t) ==
    IF t.endpoint \/ t.broadcastTimeout \/ TrackedIds(t) = { }
    THEN [ t EXCEPT !.dirty = TRUE ]
    ELSE [ t EXCEPT !.dirty = TRUE, !.broadcastTimeout = TRUE, !.timers = @ + 1 ]

\* The callback queueBroadcast hands to setTimeout.
broadcast(t) ==
    LET listed  == { id \in NodeIds :
                       /\ id # t.networkId
                       /\ t.nodes[id].known
                       /\ hasPeers(t.nodes[id]) }
        message == [ type       |-> "NodeSummary",
                     ownVersion |-> self(t).version,
                     nodes      |-> { [ id |-> id, version |-> t.nodes[id].version ] :
                                      id \in listed } ]
    IN  [ t EXCEPT !.dirty = FALSE,
                   !.broadcastTimeout = FALSE,
                   !.timers = @ - 1,
                   !.out = @ \cup { [ to |-> t.peers[id].peer, message |-> message ] :
                                    id \in TrackedIds(t) } ]

\* addPeer without the look at this.peers.
addPeer_NoCurrentCheck(t, p) ==
    LET t1 == [ t EXCEPT !.peers[p.id] = [ tracked |-> TRUE, peer |-> p, nodes |-> { } ],
                         !.subscriptions = @ \cup { p } ]
        t2 == getOrCreate(t1, p.id)
    IN  queueBroadcast(updateSelf([ t2 EXCEPT !.nodes[p.id].direct = TRUE ]))

addPeer(t, p) ==
    IF t.peers[p.id].tracked
    THEN t
    ELSE LET t1 == [ t EXCEPT !.peers[p.id] = [ tracked |-> TRUE, peer |-> p, nodes |-> { } ],
                              !.subscriptions = @ \cup { p } ]
             t2 == getOrCreate(t1, p.id)
         IN  queueBroadcast(updateSelf([ t2 EXCEPT !.nodes[p.id].direct = TRUE ]))

\* handleNodeSummaryMessage that also asks for what it holds at the version
\* advertised.
handleNodeSummaryMessage_AsksForEqual(t, p, message) ==
    LET t1      == getOrCreateAll(getOrCreate(t, p.id), { s.id : s \in message.nodes })
        idsToRequest ==
            (IF t1.nodes[p.id].version <= message.ownVersion THEN { p.id } ELSE { })
            \cup { s.id : s \in { x \in message.nodes :
                                    t1.nodes[x.id].version <= x.version } }
    IN  sendTo(t1, p, [ type |-> "NodeRequest", nodes |-> idsToRequest ])

handleNodeSummaryMessage(t, p, message) ==
    LET t1      == getOrCreate(t, p.id)
        ids     == { s.id : s \in message.nodes }
        t2      == getOrCreateAll(t1, ids)
        found   == { p.id } \cup ids
        idsToRequest ==
            (IF t1.nodes[p.id].version < message.ownVersion THEN { p.id } ELSE { })
            \cup { s.id : s \in { x \in message.nodes :
                                    t2.nodes[x.id].version < x.version } }
        unseen  == { id \in NodeIds :
                       /\ t2.nodes[id].known
                       /\ id # t.networkId
                       /\ id \notin found
                       /\ ~ t2.peers[id].tracked }
        didChangeRouting == \E id \in unseen : removeRouting(t2.nodes[id], p).changed
        t3      == [ t2 EXCEPT !.nodes = [ id \in NodeIds |->
                                             IF id \in unseen
                                             THEN removeRouting(@[id], p).node
                                             ELSE @[id] ] ]
        t4      == IF didChangeRouting THEN queueBroadcast(t3) ELSE t3
    IN  IF idsToRequest = { }
        THEN t4
        ELSE sendTo(t4, p, [ type |-> "NodeRequest", nodes |-> idsToRequest ])

handleNodeRequestMessage(t, p, message) ==
    sendTo(t, p,
           [ type  |-> "NodeDetails",
             nodes |-> { toRoutingDetails(id, t.nodes[id]) :
                         id \in { i \in message.nodes : t.nodes[i].known } } ])

\* handleNodeDetailsMessage without the protection of the self node.
handleNodeDetailsMessage_NoSelfCheck(t, p, message) ==
    IF ~ t.peers[p.id].tracked
    THEN t
    ELSE LET t1       == getOrCreateAll(t, { r.id : r \in message.nodes })
             seen     == { r.id : r \in message.nodes }
             upd(id)  == updateRouting(t1.nodes[id], p,
                                       CHOOSE r \in message.nodes : r.id = id)
         IN  queueBroadcast([ t1 EXCEPT
                                !.peers[p.id].nodes = seen,
                                !.nodes = [ id \in NodeIds |->
                                              IF id \in seen THEN upd(id).node ELSE @[id] ] ])

\* handleNodeDetailsMessage; a message holds one entry for an id.
handleNodeDetailsMessage(t, p, message) ==
    IF ~ t.peers[p.id].tracked
    THEN t
    ELSE LET oldNodes == t.peers[p.id].nodes
             t1       == getOrCreateAll(t, { r.id : r \in message.nodes })
             seen     == { r.id : r \in message.nodes } \ { t.networkId }
             gone     == { id \in oldNodes \ seen : t1.nodes[id].known }
             upd(id)  == updateRouting(t1.nodes[id], p,
                                       CHOOSE r \in message.nodes : r.id = id)
             rem(id)  == removeRouting(t1.nodes[id], p)
             didChangeRouting ==
                 \/ \E id \in seen : upd(id).changed
                 \/ \E id \in gone : rem(id).changed
             t2       == [ t1 EXCEPT
                             !.peers[p.id].nodes = seen,
                             !.nodes = [ id \in NodeIds |->
                                           IF id \in seen THEN upd(id).node
                                           ELSE IF id \in gone THEN rem(id).node
                                           ELSE @[id] ] ]
         IN  IF didChangeRouting THEN queueBroadcast(t2) ELSE t2

\* handleDisconnect without the loop over info.nodes.
topologyHandleDisconnect_KeepsRoutes(t, p) ==
    IF ~ t.peers[p.id].tracked
    THEN t
    ELSE LET info == t.peers[p.id]
             t1   == [ t EXCEPT !.peers[p.id] = NoPeerInfo,
                                !.subscriptions = @ \ { info.peer } ]
             t2   == getOrCreate(t1, p.id)
         IN  queueBroadcast(updateSelf([ t2 EXCEPT !.nodes[p.id].direct = FALSE ]))

\* Topology.handleDisconnect
topologyHandleDisconnect(t, p) ==
    IF ~ t.peers[p.id].tracked
    THEN t
    ELSE LET info == t.peers[p.id]
             t1   == [ t EXCEPT !.peers[p.id] = NoPeerInfo,
                                !.subscriptions = @ \ { info.peer } ]
             t2   == getOrCreate(t1, p.id)
             t3   == [ t2 EXCEPT
                         !.nodes = [ id \in NodeIds |->
                                       LET node == IF id = p.id
                                                   THEN [ @[id] EXCEPT !.direct = FALSE ]
                                                   ELSE @[id]
                                       IN  IF id \in info.nodes /\ node.known
                                           THEN removeRouting(node, p).node
                                           ELSE node ] ]
         IN  queueBroadcast(updateSelf(t3))

\* What the subscription made in addPeer does with a frame of the peer.
onData(t, p, message) ==
    CASE message.type = "NodeSummary" -> handleNodeSummaryMessage(t, p, message)
      [] message.type = "NodeDetails" -> handleNodeDetailsMessage(t, p, message)
      [] message.type = "NodeRequest" -> handleNodeRequestMessage(t, p, message)
      [] OTHER -> t

\* The frames of a call, each behind those its peer has still to read.
Sent(n, t, base) ==
    [ pair \in NodeIds \X NodeIds |->
        IF pair[1] = n /\ \E o \in t.out : o.to.id = pair[2]
        THEN Append(base[pair], (CHOOSE o \in t.out : o.to.id = pair[2]).message)
        ELSE base[pair] ]

\* The call into the topology of node n is over.
CommitTopology(n, t, base) ==
    /\ topology' = [ topology EXCEPT ![n] = [ t EXCEPT !.out = { } ] ]
    /\ net' = Sent(n, t, base)

NoFrames == [ pair \in NodeIds \X NodeIds |-> << >> ]

\* ---- one topology and arbitrary peers --------------------------------------

\* The node whose peers are arbitrary.
T == CHOOSE n \in NodeIds : \A m \in NodeIds : n <= m

\* How far the version of the self node is followed.
MaxVersion == 3

PeerObjects == { PeerOf(2, 1), PeerOf(2, 2), PeerOf(3, 1) }

Summary(ownVersion, nodes) ==
    [ type |-> "NodeSummary", ownVersion |-> ownVersion, nodes |-> nodes ]

\* The gossip frames a peer may send.
GossipFrames ==
    { Summary(v, s) : v \in { 0, 2 },
                      s \in { { }, { [ id |-> 4, version |-> 1 ] },
                              { [ id |-> 3, version |-> 2 ], [ id |-> 1, version |-> 9 ] } } }
    \cup { [ type |-> "NodeRequest", nodes |-> s ] : s \in { { 1 }, { 2, 4 } } }
    \cup { [ type |-> "NodeDetails", nodes |-> s ] :
           s \in { { },
                   { [ id |-> 4, version |-> 1, neighbors |-> { 3 } ] },
                   { [ id |-> 2, version |-> 2, neighbors |-> { 1, 4 } ],
                     [ id |-> 1, version |-> 9, neighbors |-> { } ] } } }

\* A peer became Active and the network handed it to the topology, or handed
\* it over once more.
AddPeer(p) ==
    /\ self(topology[T]).version < MaxVersion
    /\ conns' = conns \cup { p }
    /\ CommitTopology(T, addPeer(topology[T], p), NoFrames)
    /\ UNCHANGED << rrh, peerVars >>

\* An Active peer disconnected; the topology hears of it if it listens.
PeerDisconnects(p) ==
    /\ p \in conns
    /\ conns' = conns \ { p }
    /\ CommitTopology(T,
                      IF p \in topology[T].subscriptions
                      THEN topologyHandleDisconnect(topology[T], p)
                      ELSE topology[T],
                      NoFrames)
    /\ UNCHANGED << rrh, peerVars >>

\* A peer the topology listens to surfaced a gossip frame.
ReceiveGossip(p, message) ==
    /\ p \in conns
    /\ p \in topology[T].subscriptions
    /\ CommitTopology(T, onData(topology[T], p, message), NoFrames)
    /\ UNCHANGED << rrh, peerVars, conns >>

\* The broadcast timer fired.
BroadcastTimer ==
    /\ topology[T].timers > 0
    /\ CommitTopology(T, broadcast(topology[T]), NoFrames)
    /\ UNCHANGED << rrh, peerVars, conns >>

\* ---- a mesh of topologies ---------------------------------------------------

\* The links that may come up; each comes up once.
MeshLinks == { << 1, 2 >>, << 2, 3 >>, << 3, 4 >> }

Ends(l) == { l[1], l[2] }

\* No gossip frame is in flight and no broadcast timer is pending.
Quiescent ==
    /\ net = NoFrames
    /\ \A n \in NodeIds : ~ topology[n].broadcastTimeout

\* The peers of both ends became Active and were handed to the topologies;
\* links come up one by one, the gossip of the one before having settled.
LinkUp(l) ==
    /\ l \notin conns
    /\ Quiescent
    /\ conns' = conns \cup { l }
    /\ topology' = [ topology EXCEPT
                       ![l[1]] = addPeer(@, PeerOf(l[2], 1)),
                       ![l[2]] = addPeer(@, PeerOf(l[1], 1)) ]
    /\ UNCHANGED << rrh, peerVars, net >>

\* The topology of node `to` handled the next gossip frame of node `from`.
DeliverGossip(from, to) ==
    /\ net[<< from, to >>] # << >>
    /\ CommitTopology(to,
                      onData(topology[to], PeerOf(from, 1), Head(net[<< from, to >>])),
                      [ net EXCEPT ![<< from, to >>] = Tail(@) ])
    /\ UNCHANGED << rrh, peerVars, conns >>

\* The broadcast timer of node n fired.
Broadcast(n) ==
    /\ topology[n].timers > 0
    /\ CommitTopology(n, broadcast(topology[n]), net)
    /\ UNCHANGED << rrh, peerVars, conns >>

\* No topology has a peer.
TopologyIdle ==
    /\ topology = [ n \in NodeIds |-> Topology(n, FALSE) ]
    /\ net = NoFrames
    /\ conns = { }

(***************************************************************************)
(* Specifications                                                          *)
(***************************************************************************)

P1 == Provider("p1", TRUE, TRUE, TRUE, 0)
P2 == Provider("p2", FALSE, TRUE, TRUE, 0)
P3 == Provider("p3", TRUE, FALSE, TRUE, 0)
P1d == Provider("p1", TRUE, TRUE, TRUE, 1)
P4 == Provider("p4", TRUE, TRUE, TRUE, 0)
P4r == Provider("p4", TRUE, TRUE, FALSE, 1)

Parent(networkId, providers) == [ networkId |-> networkId, providers |-> providers ]

\* No peer exists.
PeersIdle ==
    /\ peer = [ p \in PeerIds |-> AbstractPeer(Parent(p, << >>)) ]
    /\ link = [ p \in PeerIds |-> << >> ]
    /\ transport = [ p \in PeerIds |-> Closed(Roles[p], MaxConnects) ]

RRHIdle == rrh = RequestReplyHelper

\* The provider lists of the peer facing an arbitrary remote.
PeerProviders == { << >>, << P2, P1, P3 >> }

InitPeer ==
    /\ RRHIdle
    /\ TopologyIdle
    /\ \E providers \in PeerProviders :
          peer = [ p \in PeerIds |-> AbstractPeer(Parent(p, providers)) ]
    /\ link = [ p \in PeerIds |-> << >> ]
    /\ \E role \in { "client", "server" } :
          transport = [ p \in PeerIds |-> Closed(role, MaxConnects) ]

NextPeer ==
    \/ ConnectAsClient
    \/ ConnectAsServer
    \/ \E frame \in Frames : Receive(frame)
    \/ Resume
    \/ NegotiationTimeout
    \/ TransportDisconnect

SpecPeer == InitPeer /\ [][NextPeer]_vars

\* The provider lists of a client and of a server that share a provider the
\* server accepts (p1).
ClientProviders == { << P1 >>, << P3, P1 >>, << P2, P4, P1 >> }

ServerProviders == { << P1 >>, << P1d, P4r, P3 >> }

InitPair ==
    /\ RRHIdle
    /\ TopologyIdle
    /\ \E n1 \in NetworkIds, n2 \in NetworkIds :
       \E cp \in ClientProviders, sp \in ServerProviders :
          peer = << AbstractPeer(Parent(n1, cp)), AbstractPeer(Parent(n2, sp)) >>
    /\ link = [ p \in PeerIds |-> << >> ]
    /\ transport = [ p \in PeerIds |-> Closed(Roles[p], MaxConnects) ]

NextPair ==
    \/ \E p \in PeerIds : StartClient(p)
    \/ \E p \in PeerIds : StartServer(p)
    \/ \E p \in PeerIds : Deliver(p)
    \/ \E p \in PeerIds : Settle(p)

\* Both transports connect, frames in flight arrive, flow operations settle.
SpecPair ==
    /\ InitPair
    /\ [][NextPair]_vars
    /\ \A p \in PeerIds :
          /\ WF_vars(StartClient(p))
          /\ WF_vars(StartServer(p))
          /\ WF_vars(Deliver(p))
          /\ WF_vars(Settle(p))

\* A client whose transport connects again after a disconnect, as a
\* reconnecting transport's peer does, facing an arbitrary remote.
InitReconnect ==
    /\ RRHIdle
    /\ TopologyIdle
    /\ peer = [ p \in PeerIds |-> AbstractPeer(Parent(p, << P2, P1, P3 >>)) ]
    /\ link = [ p \in PeerIds |-> << >> ]
    /\ transport = [ p \in PeerIds |-> Closed("client", MaxReconnects + 1) ]

NextReconnect ==
    \/ ConnectAsClient
    \/ \E frame \in Frames : Receive(frame)
    \/ Resume
    \/ NegotiationTimeout
    \/ TransportDisconnect

SpecReconnect == InitReconnect /\ [][NextReconnect]_vars

\* One topology, an endpoint or not, whose peers are arbitrary.
\* One peer of a transport that connects with forceConnect, and again after
\* each disconnect, and whose remote pings.
InitLatency ==
    /\ peer = [ p \in PeerIds |-> AbstractPeer(Parent(p, << P1 >>)) ]
    /\ link = [ p \in PeerIds |-> << >> ]
    /\ transport = [ p \in PeerIds |-> Closed("forced", MaxReconnects + 1) ]
    /\ RRHIdle
    /\ TopologyIdle

NextLatency ==
    \/ \E id \in NetworkIds \ { peer[P].parent.networkId } : ForceConnect(id)
    \/ Elapse
    \/ ReceivePing
    \/ PingSenderTick
    \/ PingCheckerTick
    \/ TransportDisconnect

SpecLatency == InitLatency /\ [][NextLatency]_vars

InitTopo ==
    /\ RRHIdle
    /\ PeersIdle
    /\ \E endpoint \in BOOLEAN :
          topology = [ n \in NodeIds |-> Topology(n, endpoint) ]
    /\ net = NoFrames
    /\ conns = { }

NextTopo ==
    \/ \E p \in PeerObjects : AddPeer(p)
    \/ \E p \in PeerObjects : PeerDisconnects(p)
    \/ \E p \in PeerObjects, message \in GossipFrames : ReceiveGossip(p, message)
    \/ BroadcastTimer

SpecTopo == InitTopo /\ [][NextTopo]_vars

\* A topology handed peers of any id, the id of its own node among them.
AnyPeerObjects == { PeerOf(T, 1), PeerOf(2, 1) }

NextAnyPeer ==
    \/ \E p \in AnyPeerObjects : AddPeer(p)
    \/ \E p \in AnyPeerObjects : PeerDisconnects(p)
    \/ \E p \in AnyPeerObjects, message \in GossipFrames : ReceiveGossip(p, message)
    \/ BroadcastTimer

SpecAnyPeer == InitTopo /\ [][NextAnyPeer]_vars

\* Four nodes that are no endpoints, joined link by link into a line.
InitMesh ==
    /\ RRHIdle
    /\ PeersIdle
    /\ TopologyIdle

NextMesh ==
    \/ \E l \in MeshLinks : LinkUp(l)
    \/ \E from \in NodeIds, to \in NodeIds : DeliverGossip(from, to)
    \/ \E n \in NodeIds : Broadcast(n)

SpecMesh == InitMesh /\ [][NextMesh]_vars

InitRRH ==
    /\ RRHIdle
    /\ TopologyIdle
    /\ PeersIdle

NextRRH ==
    \/ PrepareRequest
    \/ \E id \in ReqIds, result \in Results : RegisterReply(id, result)
    \/ \E id \in ReqIds : RegisterError(id)
    \/ \E id \in ReqIds : RequestTimeout(id)

\* Timers that stay armed fire.
SpecRRH ==
    /\ InitRRH
    /\ [][NextRRH]_vars
    /\ \A id \in ReqIds : WF_vars(RequestTimeout(id))

\* What the promise of a settled id must hold, given the first event for it.
OutcomeOf(what) ==
    IF what \in Results THEN << "resolved", what >> ELSE << "rejected", what >>

RRHSettledAtMostOnce ==
    \A id \in ReqIds :
        /\ rrh.calls[id] <= 1
        /\ (id < rrh.idCounter) =>
              /\ (id \in rrh.pending) <=> (rrh.promise[id] = << "pending" >>)
              /\ (id \in rrh.pending) <=> (rrh.calls[id] = 0)
              /\ (id \in rrh.pending) <=> (rrh.first[id] = "none")
              /\ (id \in rrh.timers) <=> (id \in rrh.pending)
              /\ (id \notin rrh.pending) => rrh.promise[id] = OutcomeOf(rrh.first[id])
        /\ (id >= rrh.idCounter) =>
              /\ id \notin rrh.pending /\ id \notin rrh.timers
              /\ rrh.promise[id] = << "none" >>

\* C2: every promise returned by prepareRequest is settled at most once, by
\* the first registerReply/registerError for its id or else by the rejection
\* 'Timed out'; no timer stays armed for a settled id, later events for it
\* change nothing, and (timers firing) every promise is settled exactly once.
C2_SettledExactlyOnce ==
    /\ []RRHSettledAtMostOnce
    /\ \A id \in ReqIds :
          (id \in rrh.pending) ~> (id \notin rrh.pending /\ rrh.calls[id] = 1)

\* Three requests, settled in the three ways: one rejected by its timeout, one
\* resolved by a reply, one rejected by an error.
C2_Witness ==
    /\ rrh.idCounter >= 3
    /\ \E a, b, c \in ReqIds :
          /\ rrh.promise[a] = << "rejected", "Timed out" >>
          /\ rrh.promise[b] \in { << "resolved", r >> : r \in Results }
          /\ rrh.promise[c] = << "rejected", "Err" >>

(***************************************************************************)
(* Negotiation                                                             *)
(***************************************************************************)

AllActive == \A p \in PeerIds : peer[p].state = "Active"

Accepting(type) ==
    CASE type = "Hello"    -> { "WaitingForHello" }
      [] type = "Select"   -> { "WaitingForSelect" }
      [] type = "Auth"     -> { "WaitingForAuth" }
      [] type = "AuthData" -> { "WaitingForAuthData", "WaitingForAuthAck" }
      [] type = "Begin"    -> { "WaitingForBegin" }
      [] type = "Ok"       -> { "WaitingForSelectAck", "WaitingForAuthAck" }
      [] type = "Reject"   -> { "WaitingForSelectAck", "WaitingForAuthAck" }
      [] OTHER             -> States

\* C4: in every state the peer can be in while its transport is open, a
\* negotiation frame its state does not accept makes receiveData request
\* disconnect with NegotiationFailed and do nothing else of the handshake: no
\* frame sent, state kept, no flow touched, nothing awaited.
C4_UnexpectedFrameAborts ==
    \A frame \in Frames :
        (transport[P].open /\ peer[P].state \notin Accepting(frame.type)) =>
            LET after == receiveData(peer[P], frame, TRUE)
            IN  /\ "NegotiationFailed" \in after.requested
                /\ after.state = peer[P].state
                /\ after.out = << >>
                /\ after.authClientFlow = peer[P].authClientFlow
                /\ after.authServerFlow = peer[P].authServerFlow
                /\ after.clientFlows = peer[P].clientFlows
                /\ after.serverFlows = peer[P].serverFlows
                /\ after.authProviders = peer[P].authProviders
                /\ after.tasks = peer[P].tasks
                /\ after.id = peer[P].id

\* An Active peer that was asked to disconnect for a failed negotiation, with
\* nothing pending and nothing sent.
C4_Witness ==
    /\ peer[P].state = "Active"
    /\ transport[P].open
    /\ peer[P].requested = { "NegotiationFailed" }
    /\ peer[P].tasks = << >>
    /\ link[P] = << >>

\* C5: a peer in a negotiation state that has not asked to be disconnected
\* has its negotiation timeout armed.
C5_NegotiatingHasTimeout ==
    \A p \in PeerIds :
        (peer[p].state \in Negotiating /\ peer[p].requested = { }) =>
            peer[p].helloTimeout

\* C6: an Active peer has exactly one ping-send and one ping-check interval
\* running, and a peer that handleDisconnect has reset has none.
C6_OneIntervalEach ==
    \A p \in PeerIds :
        /\ peer[p].state = "Active" =>
              peer[p].pingSender.running = 1 /\ peer[p].pingChecker.running = 1
        /\ peer[p].state = "Initial" =>
              peer[p].pingSender.running = 0 /\ peer[p].pingChecker.running = 0

\* The ids of the providers that can create a client flow, in list order.
RECURSIVE ClientIds(_)
ClientIds(providers) ==
    IF providers = << >> THEN << >>
    ELSE IF Head(providers).createClientFlow
         THEN << Head(providers).id >> \o ClientIds(Tail(providers))
         ELSE ClientIds(Tail(providers))

IsPrefix(s, t) == Len(s) <= Len(t) /\ SubSeq(t, 1, Len(s)) = s

NoDuplicates(s) == \A i, j \in DOMAIN s : s[i] = s[j] => i = j

Range(s) == { s[i] : i \in DOMAIN s }

\* What sendInitialAuth is to do with the providers `rest` still to try.
NextProviderOrAuthReject(rest, before) ==
    IF rest = << >>
    THEN /\ "AuthReject" \in peer'[P].requested
         /\ peer'[P].picked = before
         /\ link'[P] = << >>
    ELSE /\ peer'[P].picked = Append(before, Head(rest))
         /\ peer'[P].authClientFlow = [ provider |-> Head(rest), st |-> "live" ]
         /\ peer'[P].requested = peer[P].requested

\* C7: the providers the client picks are, in order, the configured providers
\* that have createClientFlow; no provider has two Auth frames sent in one
\* negotiation and none is sent for a provider not picked; Select's Ok and
\* each Reject in WaitingForAuthAck pick the next such provider, or request
\* disconnect with AuthReject when none remains.
C7_ProvidersInOrder ==
    /\ [](/\ IsPrefix(peer[P].picked, ClientIds(peer[P].parent.providers))
          /\ NoDuplicates(peer[P].sentAuth)
          /\ Range(peer[P].sentAuth) \subseteq Range(peer[P].picked))
    /\ [][\A frame \in Frames :
            /\ (Receive(frame) /\ frame.type = "Ok"
                   /\ peer[P].state = "WaitingForSelectAck") =>
                  NextProviderOrAuthReject(ClientIds(peer[P].parent.providers), << >>)
            /\ (Receive(frame) /\ frame.type = "Reject"
                   /\ peer[P].state = "WaitingForAuthAck") =>
                  NextProviderOrAuthReject(ClientIds(peer[P].authProviders),
                                           peer[P].picked)]_vars

\* A client that skipped p2, had p1 and p3 rejected after sending an Auth for
\* each, and asked to be disconnected with AuthReject at the third Reject.
C7_Witness ==
    /\ peer[P].parent.providers = << P2, P1, P3 >>
    /\ peer[P].picked = << "p1", "p3" >>
    /\ Range(peer[P].sentAuth) = { "p1", "p3" }
    /\ peer[P].state = "WaitingForAuthAck"
    /\ peer[P].requested = { "AuthReject" }

\* C8: no peer is Active with the local networkId as its remote id.
C8_NoLinkToSelf ==
    \A p \in PeerIds :
        peer[p].state = "Active" => peer[p].id # peer[p].parent.networkId

(***************************************************************************)
(* Gossip                                                                  *)
(***************************************************************************)

\* The nodes joined to n by links that are up.
RECURSIVE Reach(_, _)
Reach(seen, k) ==
    IF k = 0 THEN seen
    ELSE Reach(seen \cup { m \in NodeIds :
                             \E l \in conns : m \in Ends(l) /\ Ends(l) \cap seen # { } },
               k - 1)

Mesh(n) == Reach({ n }, Cardinality(NodeIds))

\* Node n holds of node m what m holds of itself.
Agree(n, m) ==
    /\ topology[n].nodes[m].known
    /\ topology[n].nodes[m].version = self(topology[m]).version
    /\ topology[n].nodes[m].outgoing = self(topology[m]).outgoing

\* C3: when no gossip frame is in flight and no broadcast timer is pending,
\* every node holds, of every node of its mesh, the version and the outgoing
\* edges that node holds of itself.
C3_GossipConverges ==
    Quiescent => \A n \in NodeIds : \A m \in Mesh(n) : Agree(n, m)

\* The frames the topology of T handed to its peers in the last call.
FramesSent ==
    UNION { { net[pair][i] : i \in DOMAIN net[pair] } : pair \in NodeIds \X NodeIds }

\* C9: a topology created as an endpoint has no broadcast timer armed and
\* hands no NodeSummary to any peer.
C9_EndpointNeverBroadcasts ==
    topology[T].endpoint =>
        /\ ~ topology[T].broadcastTimeout
        /\ \A frame \in FramesSent : frame.type # "NodeSummary"

\* An endpoint that tracked two peers, lost one, and answered the gossip of
\* the other with a NodeRequest.
C9_Witness ==
    /\ topology[T].endpoint
    /\ TrackedIds(topology[T]) = { 3 }
    /\ self(topology[T]).version = 3
    /\ topology[T].dirty
    /\ \E frame \in FramesSent : frame.type = "NodeRequest"

\* C10: addPeer with a peer whose id is tracked leaves the topology as it
\* was (the tracked Peer object, the subscriptions, the self node, the dirty
\* flag, the broadcast timer) and hands no frame to any peer.
C10_AddPeerOfTrackedId ==
    [][\A p \in PeerObjects :
          (AddPeer(p) /\ topology[T].peers[p.id].tracked) =>
              /\ topology' = topology
              /\ net' = NoFrames]_vars

\* A second connection to node 2 was handed over while the first was tracked:
\* the first is still the one tracked and listened to, with routing clean and
\* no broadcast pending.
C10_Witness ==
    /\ PeerOf(2, 2) \in conns
    /\ topology[T].peers[2].peer = PeerOf(2, 1)
    /\ topology[T].subscriptions = { PeerOf(2, 1) }
    /\ ~ topology[T].dirty
    /\ ~ topology[T].broadcastTimeout
    /\ self(topology[T]).outgoing = { 2 }

(***************************************************************************)
(* Latency samples                                                         *)
(***************************************************************************)

\* C11: the latency buffer never holds more than 6 samples, and holds the
\* latest samples pushed (by registerLatencyReply and forceConnect), oldest
\* first.
C11_LatencyBuffer ==
    LET v == peer[P].latencyValues
        r == peer[P].recorded
    IN  /\ Len(v) <= 6
        /\ Len(v) = IF Len(r) < 6 THEN Len(r) ELSE 6
        /\ v = SubSeq(r, Len(r) - Len(v) + 1, Len(r))

(***************************************************************************)
(* Auth flows                                                              *)
(***************************************************************************)

\* C12: a peer that handleDisconnect has reset holds no flow, client or
\* server, that it created and did not destroy.
C12_DisconnectDestroysFlows ==
    \A p \in PeerIds :
        (peer[p].state = "Initial" /\ ~ transport[p].open) =>
            /\ peer[p].clientFlows = 0
            /\ peer[p].serverFlows = 0

(***************************************************************************)
(* Routing refresh                                                         *)
(***************************************************************************)

\* C13: when a tracked peer has disconnected, the routing marked dirty is to
\* be refreshed without an application call: the broadcast timer, whose
\* callback is the one place of the topology that refreshes, is pending.
C13_DisconnectRefreshesRouting ==
    [][\A p \in PeerObjects :
          (PeerDisconnects(p) /\ p \in topology[T].subscriptions) =>
              (topology'[T].dirty => topology'[T].broadcastTimeout)]_vars

(***************************************************************************)
(* Continuations of the auth flow operations                               *)
(***************************************************************************)

\* C14: a flow operation that completes when the peer has meanwhile been
\* reset to Initial or become Active (no handler that awaits one starts in
\* these states) leaves the state and the flows as they are, arms no
\* negotiation timeout and sends no frame.
C14_LateCompletionIsNoOp ==
    \A i \in DOMAIN peer[P].tasks :
        \A outcome \in Outcomes(peer[P].tasks[i]), sendOk \in SendOks :
            (peer[P].state \in { "Initial", "Active" }
                /\ peer[P].tasks[i].k # "sendFailed") =>
                LET after == resume([ peer[P] EXCEPT !.tasks = RemoveAt(@, i) ],
                                    peer[P].tasks[i], outcome, sendOk)
                IN  /\ after.state = peer[P].state
                    /\ after.helloTimeout = peer[P].helloTimeout
                    /\ after.out = << >>
                    /\ after.authClientFlow = peer[P].authClientFlow
                    /\ after.authServerFlow = peer[P].authServerFlow

\* C15: no negotiation timeout is armed while a peer is Active.
C15_ActiveHasNoTimeout ==
    \A p \in PeerIds : peer[p].state = "Active" => ~ peer[p].helloTimeout

\* C16: an Active peer stays Active until handleDisconnect resets it to
\* Initial: no frame and no completion of a flow operation moves it to a
\* negotiation state, from which switchToActive would run again.
C16_ActiveUntilDisconnect ==
    [][\A p \in PeerIds :
          peer[p].state = "Active" => peer'[p].state \in { "Active", "Initial" }]_vars

(***************************************************************************)
(* Server side of an auth step                                             *)
(***************************************************************************)

\* What the reply of the server flow makes the peer do.
ServerStep(after, reply) ==
    CASE reply = "Ok" ->
            after.out = << Plain("Ok") >> /\ after.state = "WaitingForBegin"
      [] reply = "Reject" ->
            after.out = << Plain("Reject") >> /\ after.state = "WaitingForAuth"
      [] reply = "Data" ->
            after.out = << Plain("AuthData") >> /\ after.state = "WaitingForAuthData"
      [] reply = "DataEmpty" ->
            after.out = << >> /\ "NegotiationFailed" \in after.requested
      [] OTHER -> TRUE

\* The methods that name no provider of the peer with createServerFlow.
NoServerFlow(pr) ==
    { m \in Methods : \A x \in getProvider(pr.parent, m) : ~ x.createServerFlow }

\* C17: on a connected server the reply of the flow decides the step: Ok
\* sends Ok and enters WaitingForBegin, Reject sends Reject and enters
\* WaitingForAuth, Data with bytes sends AuthData and enters
\* WaitingForAuthData, Data without bytes aborts and sends nothing; an Auth
\* whose method names no provider with createServerFlow is answered with
\* Reject and the state stays as it is.
C17_ServerReplyDecides ==
    (transport[P].open /\ transport[P].role = "server") =>
        /\ \A i \in DOMAIN peer[P].tasks : \A reply \in ServerReplies :
              LET task   == peer[P].tasks[i]
                  before == [ peer[P] EXCEPT !.tasks = RemoveAt(@, i) ]
              IN  task.k \in { "receiveInitial", "serverReceiveData" } =>
                      ServerStep(resume(before, task, reply, TRUE), reply)
        /\ \A i \in DOMAIN peer[P].tasks :
              LET task   == peer[P].tasks[i]
                  before == [ peer[P] EXCEPT !.tasks = RemoveAt(@, i) ]
                  after  == resume(before, task, "ok", TRUE)
              IN  (task.k = "authDestroy" /\ task.method \in NoServerFlow(peer[P])) =>
                      after.out = << Plain("Reject") >> /\ after.state = before.state
        /\ \A m \in NoServerFlow(peer[P]) :
              (peer[P].state = "WaitingForAuth" /\ peer[P].authServerFlow.st = "undefined") =>
                  LET after == receiveData(peer[P], Frame("Auth", NoId, m), TRUE)
                  IN  after.out = << Plain("Reject") >> /\ after.state = "WaitingForAuth"

\* A server whose flow asked for more data: AuthData went out and the peer
\* waits for the client's AuthData, with a flow that is still to be used.
C17_Witness ==
    /\ transport[P].open /\ transport[P].role = "server"
    /\ peer[P].state = "WaitingForAuthData"
    /\ link[P] = << Plain("AuthData") >>
    /\ peer[P].authServerFlow = [ provider |-> "p1", st |-> "live" ]
    /\ peer[P].requested = { }

\* C18: a peer holds at most one client flow and at most one server flow
\* that it created and did not destroy, and an Active peer holds none.
C18_OneLiveFlowEach ==
    \A p \in PeerIds :
        /\ peer[p].clientFlows <= 1
        /\ peer[p].serverFlows <= 1
        /\ peer[p].state = "Active" =>
              peer[p].clientFlows = 0 /\ peer[p].serverFlows = 0

(***************************************************************************)
(* Send failures of an Active peer                                         *)
(***************************************************************************)

\* The reasons given to requestDisconnect once the catch handlers of the
\* sends that failed during a call have run.
RequestedAfterCatch(pr) ==
    UNION { resume([ pr EXCEPT !.tasks = RemoveAt(@, i) ], pr.tasks[i], "ok", FALSE).requested :
              i \in { j \in DOMAIN pr.tasks : pr.tasks[j].k = "sendFailed" } }
    \cup pr.requested

\* C19: a send that fails once the peer is Active does not make it request
\* disconnect: not the Begin sent on the Ok received in WaitingForAuthAck,
\* which leaves the client Active, not a Pong, not a Ping.
C19_SendFailureWhenActive ==
    transport[P].open =>
        /\ (peer[P].state = "WaitingForAuthAck" /\ peer[P].tasks = << >>) =>
              LET after == receiveData(peer[P], Plain("Ok"), FALSE)
              IN  /\ after.state = "Active"
                  /\ RequestedAfterCatch(after) = peer[P].requested
        /\ (peer[P].state = "Active" /\ peer[P].tasks = << >>) =>
              /\ RequestedAfterCatch(receiveData(peer[P], Plain("Ping"), FALSE))
                    = peer[P].requested
              /\ RequestedAfterCatch(sendPing(peer[P], FALSE)) = peer[P].requested

(***************************************************************************)
(* The data event                                                          *)
(***************************************************************************)

\* The frame types receiveData hands to the subscribers of the data event.
DataTypes ==
    { "Data", "DataAck", "DataReject", "NodeSummary", "NodeRequest", "NodeDetails", "Pong" }

\* C20: a frame of a data type received by a peer that is not Active is not
\* emitted as a data event.
C20_DataOnlyWhenActive ==
    \A type \in DataTypes :
        (transport[P].open /\ peer[P].state # "Active") =>
            receiveData(peer[P], Plain(type), TRUE).emitted = << >>

(***************************************************************************)
(* Gossip handlers                                                         *)
(***************************************************************************)

\* The peers whose frames reach the topology of T.
Heard == topology[T].subscriptions \cap conns

\* The version held of a node; a node that is not known counts as version 0.
LocalVersion(t, id) == IF t.nodes[id].known THEN t.nodes[id].version ELSE 0

\* The ids a summary of peer p advertises at a higher version than held.
Outdated(t, p, message) ==
    { id \in { p.id } : LocalVersion(t, id) < message.ownVersion }
    \cup { id \in NodeIds :
             \E x \in message.nodes : x.id = id /\ LocalVersion(t, id) < x.version }

\* C21: on a NodeSummary of a peer the topology sends that peer one
\* NodeRequest holding exactly the ids it holds at a lower version than
\* advertised (the peer's own against ownVersion), and no NodeRequest when
\* there is none.
C21_RequestsExactlyOutdated ==
    \A p \in Heard : \A message \in GossipFrames :
        message.type = "NodeSummary" =>
            LET after    == handleNodeSummaryMessage(topology[T], p, message)
                requests == { o \in after.out : o.message.type = "NodeRequest" }
                ids      == Outdated(topology[T], p, message)
            IN  requests = IF ids = { } THEN { }
                           ELSE { [ to |-> p,
                                    message |-> [ type |-> "NodeRequest", nodes |-> ids ] ] }

\* A summary made the topology ask its peer for three nodes, its own among
\* them, while it held another node of the summary's peer at its version.
C21_Witness ==
    /\ \E frame \in FramesSent : frame.type = "NodeRequest" /\ frame.nodes = { 1, 2, 3 }
    /\ topology[T].nodes[4].version = 1

\* C22: a NodeSummary, NodeRequest or NodeDetails of a peer leaves the
\* version, the outgoing edges and the direct flag of the self node as they
\* are, whatever it says of the local node.
C22_GossipKeepsSelf ==
    \A p \in Heard : \A message \in GossipFrames :
        LET after == self(onData(topology[T], p, message))
        IN  /\ after.version = self(topology[T]).version
            /\ after.outgoing = self(topology[T]).outgoing
            /\ after.direct = self(topology[T]).direct

\* The details of a peer that list the local node at version 9 were taken:
\* the node of the peer holds what they said, the self node what it held.
C22_Witness ==
    /\ topology[T].nodes[2].version = 2
    /\ topology[T].nodes[2].outgoing = { 1, 4 }
    /\ topology[T].peers[2].nodes = { 2 }
    /\ self(topology[T]).version = 1
    /\ self(topology[T]).outgoing = { 2 }
    /\ self(topology[T]).direct

\* The NodeDetails a peer answers a NodeRequest with: an entry for each id
\* asked for, at the version its summary advertised.
DetailsFor(p, summary, ids) ==
    [ type  |-> "NodeDetails",
      nodes |-> { [ id |-> id,
                    version |-> IF \E x \in summary.nodes : x.id = id
                                THEN (CHOOSE x \in summary.nodes : x.id = id).version
                                ELSE summary.ownVersion,
                    neighbors |-> { } ] : id \in ids } ]

\* A round with peer p: its summary is handled, and the details it answers
\* the NodeRequest with, if one was sent.
Round(t, p, summary) ==
    LET asked   == handleNodeSummaryMessage(t, p, summary)
        request == { o.message : o \in { x \in asked.out : x.message.type = "NodeRequest" } }
    IN  IF request = { }
        THEN asked
        ELSE handleNodeDetailsMessage(asked, p,
                                      DetailsFor(p, summary, (CHOOSE r \in request : TRUE).nodes))

\* C23: after a summary/request/details round with a peer, a node the
\* summary lists, held at the version listed (so not asked for), of which
\* the peer was a route provider, still has the peer as a route provider.
C23_RoundKeepsProvider ==
    \A p \in Heard : \A summary \in GossipFrames :
        summary.type = "NodeSummary" =>
            \A x \in summary.nodes :
                (/\ x.id # topology[T].networkId
                 /\ LocalVersion(topology[T], x.id) >= x.version
                 /\ p \in topology[T].nodes[x.id].reachableVia) =>
                    p \in Round(topology[T], p, summary).nodes[x.id].reachableVia

(***************************************************************************)
(* The self node and the tracked peers                                     *)
(***************************************************************************)

\* C24: the node stored under the local networkId is there and is direct,
\* whatever the ids of the peers handed to addPeer.
C24_SelfIsDirect ==
    self(topology[T]).known /\ self(topology[T]).direct

(***************************************************************************)
(* The broadcast timer                                                     *)
(***************************************************************************)

\* The NodeSummary that tells of the topology as it is.
Advertised(t) ==
    Summary(self(t).version,
            { [ id |-> id, version |-> t.nodes[id].version ] :
              id \in { i \in NodeIds \ { t.networkId } :
                         t.nodes[i].known /\ t.nodes[i].reachableVia # { } } })

\* A step changed routing: the tracked peers differ, or the version or the
\* edges of a node differ, or a node lost a route provider.
RoutingChanged ==
    \/ TrackedIds(topology'[T]) # TrackedIds(topology[T])
    \/ \E id \in NodeIds :
          \/ topology'[T].nodes[id].version # topology[T].nodes[id].version
          \/ topology'[T].nodes[id].outgoing # topology[T].nodes[id].outgoing
          \/ topology[T].nodes[id].reachableVia \ topology'[T].nodes[id].reachableVia # { }

\* C25: at most one broadcast timer is pending; after a routing change that
\* leaves a non-endpoint with a tracked peer exactly one timer is pending,
\* whether or not one was pending before; and the timer, when it fires, hands
\* each peer tracked then the NodeSummary of the versions held then.
C25_BroadcastCoalesced ==
    /\ [](topology[T].timers <= 1)
    /\ [][/\ (/\ RoutingChanged
               /\ ~ topology'[T].endpoint
               /\ TrackedIds(topology'[T]) # { }) => topology'[T].timers = 1
          /\ topology'[T].timers < topology[T].timers =>
                \A id \in NodeIds :
                    net'[<< T, id >>] = IF topology[T].peers[id].tracked
                                        THEN << Advertised(topology[T]) >>
                                        ELSE << >>]_vars

\* Two peers are tracked, the second added after the first, and both were
\* handed the summary of the latest version of the self node by the one
\* timer callback that ran last; no timer is pending.
C25_Witness ==
    /\ topology[T].timers = 0
    /\ ~ topology[T].broadcastTimeout
    /\ TrackedIds(topology[T]) = { 2, 3 }
    /\ self(topology[T]).version = 2
    /\ net[<< T, 2 >>] = << Summary(2, { }) >>
    /\ net[<< T, 3 >>] = << Summary(2, { }) >>

(***************************************************************************)
(* Versions that wrap                                                      *)
(***************************************************************************)

\* The width of a version, in bits.
VersionBits == 4

\* The number of versions; the highest is one below it.
VersionRange == 2 ^ VersionBits

\* Version a is newer than version b: ahead of it by less than half the
\* range, wrap-around counted.
Newer(a, b) == (a - b) % VersionRange \in 1 .. (VersionRange \div 2 - 1)

\* The gossip of peers whose nodes are at the highest version or have just
\* gone past it.
WrapFrames ==
    { Summary(v, s) : v \in { 0, VersionRange - 1 },
                      s \in { { }, { [ id |-> 4, version |-> 0 ] },
                              { [ id |-> 4, version |-> VersionRange - 1 ] } } }
    \cup { [ type |-> "NodeDetails", nodes |-> s ] :
             s \in { { [ id |-> 2, version |-> VersionRange - 1, neighbors |-> { 1 } ] },
                     { [ id |-> 4, version |-> VersionRange - 1, neighbors |-> { 2 } ] },
                     { [ id |-> 2, version |-> 0, neighbors |-> { 1, 4 } ],
                       [ id |-> 4, version |-> 0, neighbors |-> { 2, 3 } ] } } }

NextWrap ==
    \/ \E p \in PeerObjects : AddPeer(p)
    \/ \E p \in PeerObjects : PeerDisconnects(p)
    \/ \E p \in PeerObjects, message \in WrapFrames : ReceiveGossip(p, message)
    \/ BroadcastTimer

SpecWrap == InitTopo /\ [][NextWrap]_vars

\* The ids a summary of peer p advertises at a version that is numerically
\* lower than the one held and newer than it.
Wrapped(t, p, message) ==
    { id \in { p.id } : /\ message.ownVersion < LocalVersion(t, id)
                        /\ Newer(message.ownVersion, LocalVersion(t, id)) }
    \cup { id \in NodeIds :
             \E x \in message.nodes : /\ x.id = id
                                      /\ x.version < LocalVersion(t, id)
                                      /\ Newer(x.version, LocalVersion(t, id)) }

\* C26: a NodeSummary that advertises a node at a version that went past the
\* highest one (numerically lower than the version held, newer by less than
\* half the range) makes the topology ask the peer for that node.
C26_WrappedVersionRequested ==
    \A p \in Heard : \A message \in WrapFrames :
        message.type = "NodeSummary" =>
            LET after == handleNodeSummaryMessage(topology[T], p, message)
            IN  \A id \in Wrapped(topology[T], p, message) :
                    \E o \in after.out : /\ o.to = p
                                         /\ o.message.type = "NodeRequest"
                                         /\ id \in o.message.nodes

(***************************************************************************)
(* Route providers and tracked peers                                       *)
(***************************************************************************)

\* The peers recorded as route providers of some node.
Providers(t) == UNION { t.nodes[id].reachableVia : id \in NodeIds }

\* C27: every peer recorded as a route provider of a node is the peer
\* tracked under its id, so a peer that disconnected provides no node; and
\* a NodeDetails of a peer whose id is not tracked leaves the nodes as they
\* are.
C27_ProvidersAreTracked ==
    /\ \A p \in Providers(topology[T]) :
          /\ topology[T].peers[p.id].tracked
          /\ topology[T].peers[p.id].peer = p
    /\ \A p \in PeerObjects : \A message \in GossipFrames :
          (message.type = "NodeDetails" /\ ~ topology[T].peers[p.id].tracked) =>
              handleNodeDetailsMessage(topology[T], p, message).nodes = topology[T].nodes

\* The peer that provided node 4 disconnected: node 4 is still known, with
\* the version and the edges its details gave it, and has no provider.
C27_Witness ==
    /\ topology[T].nodes[4].version = 1
    /\ topology[T].nodes[4].outgoing = { 3 }
    /\ topology[T].nodes[4].reachableVia = { }
    /\ TrackedIds(topology[T]) = { }
    /\ conns = { }
    /\ ~ topology[T].nodes[2].direct

\* C28: while a peer that was handed to addPeer has not disconnected, the
\* topology tracks a peer for its id: the id is in this.peers, its node is
\* direct, and the self node has an edge to it.
C28_ConnectedIsTracked ==
    \A p \in conns :
        /\ topology[T].peers[p.id].tracked
        /\ topology[T].nodes[p.id].direct
        /\ p.id \in self(topology[T]).outgoing

(***************************************************************************)
(* Latency samples of the handshake                                        *)
(***************************************************************************)

\* C29: a client that took Hello and sent Select holds one latency sample,
\* and holds two once it took the Ok that answers Select.
C29_HelloRecordsSample ==
    /\ peer[P].state = "WaitingForSelectAck" => Len(peer[P].latencyValues) = 1
    /\ peer[P].state = "WaitingForAuthAck" => Len(peer[P].latencyValues) = 2

(***************************************************************************)
(* Rotation of the auth providers                                          *)
(***************************************************************************)

\* What the flows of a pair settle with when a client flow may turn down the
\* data of the server (AuthClientReplyType.Reject) instead of answering it.
RotatingOutcomes(pr, task) ==
    IF task.k = "clientReceiveData"
    THEN { "Data", "Reject" }
    ELSE HonestOutcomes(pr, task)

\* A flow operation of p settled.
SettleRotating(p) ==
    \E i \in DOMAIN peer[p].tasks :
        \E outcome \in RotatingOutcomes(peer[p], peer[p].tasks[i]) :
            /\ Commit(p, resume([ peer[p] EXCEPT !.tasks = RemoveAt(@, i) ],
                                peer[p].tasks[i], outcome, TRUE),
                      link)
            /\ UNCHANGED << rrh, transport, topoVars >>

\* A client with two providers, and a server that knows both: it asks for one
\* AuthData exchange before it accepts p1, and for one before it rejects p4.
InitRotate ==
    /\ RRHIdle
    /\ TopologyIdle
    /\ \E n1 \in NetworkIds, n2 \in NetworkIds :
       \E cp \in { << P1, P4 >>, << P4, P1 >> } :
          peer = << AbstractPeer(Parent(n1, cp)), AbstractPeer(Parent(n2, << P1d, P4r >>)) >>
    /\ link = [ p \in PeerIds |-> << >> ]
    /\ transport = [ p \in PeerIds |-> Closed(Roles[p], MaxConnects) ]

NextRotate ==
    \/ \E p \in PeerIds : StartClient(p)
    \/ \E p \in PeerIds : StartServer(p)
    \/ \E p \in PeerIds : Deliver(p)
    \/ \E p \in PeerIds : SettleRotating(p)

SpecRotate == InitRotate /\ [][NextRotate]_vars

\* C30: every Auth frame of the client is read by a server that is in
\* WaitingForAuth.
C30_AuthArrivesInWaitingForAuth ==
    [][\A p \in PeerIds :
          (Deliver(p) /\ Head(link[other(p)]).type = "Auth") =>
              peer[p].state = "WaitingForAuth"]_vars

=============================================================================
